---- MODULE Spec2Model ----
(***************************************************************************)
(* Mobile-clinic routing: the cost and penalty model of solve_routing, the *)
(* prize-collecting routing model it hands to the constraint solver, the   *)
(* extraction of the per-van routes, run_solver's post-processing and the  *)
(* greedy kit allocator of the dashboard.                                  *)
(*                                                                         *)
(* Nodes are numbered from 0 as in the source.  A severity score is kept   *)
(* as an integer number of 1/100000 units (9.0 is 900000), so that         *)
(* severity * 10000 is units / 10 and truncation differs from rounding.    *)
(***************************************************************************)
EXTENDS Integers, Sequences, FiniteSets, TLC

VARIABLES
  village_ids,    \* data["village_ids"]: node -> Village_ID
  time_matrix,    \* data["time_matrix"]: node -> node -> minutes
  distance_matrix,\* data["distance_matrix"]: node -> node -> metres
  cases,          \* data["cases"]: node -> Active_Cases
  prizes,         \* data["prizes"]: node -> Severity_Score (1/100000 units)
  num_vehicles,   \* data["num_vehicles"]
  max_time,       \* max_time argument of the last solve_routing call
  transit,        \* the registered transit callback, tabulated
  penalty,        \* the disjunction penalty registered for each node
  solution,       \* the assignment returned by SolveWithParameters
  search,         \* objective value of that assignment and the least one
  result,         \* the dictionary returned by solve_routing
  solver_result,  \* st.session_state.solver_result (run_solver's return)
  screen,         \* what the last rerun of the dashboard shows the operator
  prev,           \* the previous solve_routing call of the session
  solves,         \* number of solve_routing calls so far
  route_arg,      \* route_ids argument of allocate_resources
  van_capacity,   \* van_capacity argument of allocate_resources
  manifest,       \* rows of the DataFrame returned by allocate_resources
  kits_used,      \* second component returned by allocate_resources
  owm,            \* the API key and the weather provider's answer per village
  weather_records,\* the list returned by get_live_weather
  patched,        \* the matrix returned by apply_weather_penalties
  calls,          \* the solve_routing calls running on one data dictionary
  temp_file,      \* contents of temp_predictive_outbreak.csv
  requests,       \* the compute requests of concurrent dashboard sessions
  session         \* the widgets, st.session_state and df of one session

dataVars  == <<village_ids, time_matrix, distance_matrix, cases, prizes>>
solveVars == <<num_vehicles, max_time, transit, penalty, solution, search, result>>
appVars   == <<solver_result, screen, prev, solves>>
allocVars == <<route_arg, van_capacity, manifest, kits_used>>
envVars   == <<owm, weather_records, patched, calls, temp_file, requests, session>>
vars      == <<village_ids, time_matrix, distance_matrix, cases, prizes,
               num_vehicles, max_time,
               transit, penalty, solution, search, result, solver_result, screen,
               prev, solves,
               route_arg, van_capacity, manifest, kits_used,
               owm, weather_records, patched, calls, temp_file, requests, session>>

(***************************************************************************)
(* Bounds of the model.                                                    *)
(***************************************************************************)
NumVillages == 3      \* non-depot villages of a scenario
MaxSolves   == 2      \* solve requests in one session
MaxRouteLen == 3      \* length of a route list handed to the allocator alone

(***************************************************************************)
(* Arithmetic helpers.                                                     *)
(***************************************************************************)
Min2(a, b) == IF a <= b THEN a ELSE b

Max2(a, b) == IF a >= b THEN a ELSE b

\* Python int(a / b) for b > 0: truncation toward zero
TruncDiv(a, b) == IF a >= 0 THEN a \div b ELSE -((-a) \div b)

\* Python math.ceil(a / b) for a >= 0, b > 0
CeilDiv(a, b) == (a + b - 1) \div b

Range(f) == {f[x] : x \in DOMAIN f}

RECURSIVE SumOver(_, _)
SumOver(S, f) ==
  IF S = {} THEN 0
  ELSE LET x == CHOOSE y \in S : TRUE IN f[x] + SumOver(S \ {x}, f)

RECURSIVE MaxOver(_, _)
MaxOver(S, f) ==
  IF S = {} THEN 0
  ELSE LET x == CHOOSE y \in S : TRUE
           m == MaxOver(S \ {x}, f)
       IN IF S = {x} THEN f[x] ELSE Max2(f[x], m)

(***************************************************************************)
(* The data model (build_data_model and run_solver's overrides).           *)
(***************************************************************************)
depot == 0

Nodes == DOMAIN time_matrix

NonDepot == Nodes \ {depot}

Villages == 1..NumVillages

IdPool == <<"V01", "V02", "V03", "V04", "V05", "V06">>

\* the conventional table (depot row "V01" first) and the layout of the
\* weather module's four-node sample (a "DEPOT" row followed by V01, V02, ...)
IdTables ==
  { [i \in 0..NumVillages |-> IdPool[i + 1]],
    [i \in 0..NumVillages |-> IF i = 0 THEN "DEPOT" ELSE IdPool[i]] }

\* scenario matrices: symmetric, zero diagonal, depot legs of 10, 100 or 300
\* minutes, a hop between two villages as long as the longer of their legs
LegProfiles ==
  { [i \in 1..NumVillages |-> 10],
    [i \in 1..NumVillages |-> IF i = NumVillages THEN 100 ELSE 10],
    [i \in 1..NumVillages |-> IF i = NumVillages THEN 300 ELSE 10] }

ScenarioMatrix(legs) ==
  [i \in 0..NumVillages |-> [j \in 0..NumVillages |->
      IF i = j THEN 0
      ELSE IF i = 0 THEN legs[j]
      ELSE IF j = 0 THEN legs[i]
      ELSE Max2(legs[i], legs[j])]]

\* build_data_model's distance matrix for villages that are all metres apart
HaversineMatrix(metres) ==
  [i \in 0..NumVillages |-> [j \in 0..NumVillages |->
      IF i = j THEN 0 ELSE metres]]

\* build_data_model's travel time: int(distance / (40000 / 60)) minutes
HaversineMinutes(metres) == (metres * 3) \div 2000

CaseProfiles ==
  { [i \in 0..NumVillages |-> 0],
    [i \in 0..NumVillages |-> IF i = 0 THEN 0 ELSE 1000] }

\* severities 9, 5, 0, ... / 1, ..., 1, 9 / all zero (the depot row has none)
SeverityProfiles ==
  { [i \in 0..NumVillages |->
       IF i = 1 THEN 900000 ELSE IF i = 2 THEN 500000 ELSE 0],
    [i \in 0..NumVillages |->
       IF i = 0 THEN 0 ELSE IF i = NumVillages THEN 900000 ELSE 100000],
    [i \in 0..NumVillages |-> 0] }

Hours == {2, 3, 4, 12}

\* max_time of a direct call of solve_routing, in minutes
Budgets == {0} \cup { h * 60 : h \in Hours }

FleetSizes == {1, 2}

Capacities == {50, 60, 200}

CaseValues == {0, 1, 59, 60, 61, 1000}

\* 0, 0.00009, 0.00015, 1.0 and 10.0
SeverityValues == {0, 9, 15, 100000, 1000000}

\* severities at the edges of the kit tiers: 3.99999, 4.0, 7.99999, 8.0
TierProfiles ==
  { [i \in 0..NumVillages |->
       IF i = 1 THEN 800000 ELSE IF i = 2 THEN 400000 ELSE 399999],
    [i \in 0..NumVillages |->
       IF i = 1 THEN 799999 ELSE IF i = 2 THEN 900000 ELSE 0] }

\* an ID that is in no village table
UnknownId == "V99"

(***************************************************************************)
(* solve_routing: cost and penalty model.                                  *)
(***************************************************************************)
\* variant: the service time is left out of the callback
time_callback_travel_only(from_node, to_node) ==
  time_matrix[from_node][to_node]

\* variant: the travel time is recomputed from the haversine distances
time_callback_haversine(from_node, to_node) ==
  LET travel_time      == HaversineMinutes(distance_matrix[from_node][to_node])
      raw_service_time == TruncDiv(60 + 3 * cases[from_node], 2)
      service_time     == IF from_node = depot THEN 0
                          ELSE Min2(120, raw_service_time)
  IN travel_time + service_time

\* variant: the 120 minute cap is left out
time_callback_uncapped(from_node, to_node) ==
  LET travel_time  == time_matrix[from_node][to_node]
      service_time == IF from_node = depot THEN 0
                      ELSE TruncDiv(60 + 3 * cases[from_node], 2)
  IN travel_time + service_time

time_callback(from_node, to_node) ==
  LET travel_time      == time_matrix[from_node][to_node]
      raw_service_time == TruncDiv(60 + 3 * cases[from_node], 2)
      service_time     == IF from_node = depot THEN 0
                          ELSE Min2(120, raw_service_time)
  IN travel_time + service_time

\* the nodes the disjunction loop registers a penalty for
PenalisedNodes == { node_idx \in Nodes : node_idx # depot }

\* variant: no floor for a penalty of zero
disjunction_penalty_no_floor(node_idx) == TruncDiv(prizes[node_idx], 10)

\* variant: the product is rounded to the nearest integer instead of truncated
disjunction_penalty_rounded(node_idx) ==
  LET p == (prizes[node_idx] + 5) \div 10
  IN IF p = 0 THEN 500 ELSE p

disjunction_penalty(node_idx) ==
  LET p == TruncDiv(prizes[node_idx], 10)
  IN IF p = 0 THEN 500 ELSE p

(***************************************************************************)
(* The routing model solved by SolveWithParameters.                        *)
(***************************************************************************)
InjSeqs(S) ==
  UNION { { s \in [1..k -> S] : \A a, b \in 1..k : a # b => s[a] # s[b] }
          : k \in 0..Cardinality(S) }

\* one path per vehicle, every non-depot node on at most one path
Assignments(nv, nd) ==
  { a \in [0..(nv - 1) -> InjSeqs(nd)] :
      \A v, w \in 0..(nv - 1) : v # w => Range(a[v]) \cap Range(a[w]) = {} }

RECURSIVE PathSum(_, _)
PathSum(path, tr) ==
  IF Len(path) < 2 THEN 0
  ELSE tr[path[1]][path[2]] + PathSum(Tail(path), tr)

\* variant: the cumul is read at the last village, before the arc back
RouteTime_open(seq, tr) == PathSum(<<depot>> \o seq, tr)

\* cumul of the Time dimension at the end of a vehicle's path (slack 0,
\* start cumul fixed to 0)
RouteTime(seq, tr) == PathSum(<<depot>> \o seq \o <<depot>>, tr)

Visited(a) == UNION { Range(a[v]) : v \in DOMAIN a }

\* variant: the budget is shared out over the fleet instead of per vehicle
Feasible_fleet_budget(a, tr, cap) ==
  \A v \in DOMAIN a : RouteTime(a[v], tr) <= cap * Cardinality(DOMAIN a)

\* variant: the end cumul has to stay strictly below the capacity
Feasible_strict(a, tr, cap) == \A v \in DOMAIN a : RouteTime(a[v], tr) < cap

\* AddDimension(capacity = max_time): every vehicle's end cumul within capacity
Feasible(a, tr, cap) == \A v \in DOMAIN a : RouteTime(a[v], tr) <= cap

\* arc costs of the vehicles that leave the depot plus the penalties of the
\* nodes left unperformed
Objective(a, tr, pen) ==
  SumOver({v \in DOMAIN a : a[v] # <<>>}, [v \in DOMAIN a |-> RouteTime(a[v], tr)])
  + SumOver(DOMAIN pen \ Visited(a), pen)

\* the search space for each fleet size, over the villages of a scenario
AllAssignments == [nv \in 1..2 |-> Assignments(nv, Villages)]

\* the assignments over the nodes of the matrix that satisfy the dimension
FeasibleSet(nv, tr, cap) ==
  { a \in AllAssignments[nv] : Visited(a) \subseteq NonDepot /\ Feasible(a, tr, cap) }

\* the least objective value over a set of assignments
LeastObjective(S, tr, pen) ==
  LET costs == { Objective(a, tr, pen) : a \in S }
  IN CHOOSE c \in costs : \A d \in costs : c <= d

(***************************************************************************)
(* solve_routing: extraction of the routes.                                *)
(***************************************************************************)
\* route_nodes of one vehicle, as Village_IDs
RouteNodes(seq) ==
  [k \in 1..(Len(seq) + 2) |->
     IF k = 1 \/ k = Len(seq) + 2 THEN village_ids[depot]
     ELSE village_ids[seq[k - 1]]]

\* variant: a vehicle that stays at the depot keeps its entry
ExtractRoutes_all(a) ==
  [van \in { v + 1 : v \in DOMAIN a } |-> RouteNodes(a[van - 1])]

\* the key Van_<k> of the route mapping is kept as the number k
ExtractRoutes(a) ==
  LET used == { v \in DOMAIN a :
                  \E k \in 1..Len(RouteNodes(a[v])) :
                     RouteNodes(a[v])[k] # village_ids[depot] }
  IN [van \in { v + 1 : v \in used } |-> RouteNodes(a[van - 1])]

\* variant: total_time adds the route times up instead of taking the largest
ExtractResult_sum(a, tr) ==
  [ route_ids  |-> ExtractRoutes(a),
    total_time |-> SumOver(DOMAIN a, [v \in DOMAIN a |-> RouteTime(a[v], tr)]),
    status     |-> "SUCCESS" ]

\* variant: total_time is the route time of the first vehicle
ExtractResult_first(a, tr) ==
  [ route_ids  |-> ExtractRoutes(a),
    total_time |-> RouteTime(a[0], tr),
    status     |-> "SUCCESS" ]

ExtractResult(a, tr) ==
  [ route_ids  |-> ExtractRoutes(a),
    total_time |-> MaxOver(DOMAIN a, [v \in DOMAIN a |-> RouteTime(a[v], tr)]),
    status     |-> "SUCCESS" ]

\* variant: the missing assignment is not checked for and the extraction
\* fails on it
NoSolutionResult_unchecked == [status |-> "RAISED", error |-> "AttributeError"]

NoSolutionResult == [route_ids |-> <<>>, total_time |-> 0, status |-> "NO_SOLUTION"]

NotRun == [status |-> "NOT_RUN"]

None == [status |-> "None"]

NoSearch == [objective |-> -1, best |-> -1]

\* the disjunction loop reads prizes[node_idx] for every node of the matrix
\* but the depot; a node past the end of the severity vector raises IndexError
PrizeIndexError ==
  \E node_idx \in PenalisedNodes : node_idx \notin DOMAIN prizes

Raised == [status |-> "RAISED", error |-> "IndexError"]

\* the part of solve_routing that builds the routing model: the fleet size
\* written into the data, the transit callback, the Time dimension and one
\* disjunction for every node but the depot
RegisterModel(fleet_size, mt) ==
  /\ num_vehicles' = fleet_size
  /\ max_time' = mt
  /\ transit' = [i \in Nodes |-> [j \in Nodes |-> time_callback(i, j)]]
  /\ penalty' = [i \in PenalisedNodes |-> disjunction_penalty(i)]

\* solve_routing as a whole: registers the callbacks, has the routing model
\* solved and extracts the result.  SolveWithParameters returns an assignment
\* that satisfies the constraints of the model, or nothing: when no
\* assignment satisfies them, or when the search ends (its limit is 5 seconds)
\* before it has found one.
solve_routing(fleet_size, mt) ==
  IF PrizeIndexError
  THEN /\ num_vehicles' = fleet_size
       /\ max_time' = mt
       /\ transit' = <<>>
       /\ penalty' = <<>>
       /\ solution' = <<>>
       /\ search' = NoSearch
       /\ result' = Raised
  ELSE /\ RegisterModel(fleet_size, mt)
       /\ \E feasible \in {FeasibleSet(fleet_size, transit', mt)} :
            \/ /\ solution' = <<>>
               /\ search' = NoSearch
               /\ result' = NoSolutionResult
            \/ /\ feasible # {}
               /\ \E best \in {LeastObjective(feasible, transit', penalty')} :
                    \E a \in feasible :
                      /\ solution' = a
                      /\ search' = [objective |-> Objective(a, transit', penalty'),
                                    best |-> best]
                      /\ result' = ExtractResult(a, transit')

(***************************************************************************)
(* run_solver: post-processing of a SUCCESS result.                        *)
(***************************************************************************)
\* Python round(x, 2) on a severity sum kept in 1/100000 units
Round2(u) ==
  LET q == u \div 1000
      r == u % 1000
  IN IF r > 500 \/ (r = 500 /\ q % 2 = 1) THEN (q + 1) * 1000 ELSE q * 1000

\* anything but a SUCCESS result, an exception caught included, gives None
RunSolverResult(res) ==
  IF res.status = "SUCCESS"
  THEN LET visited_nodes ==
             UNION { Range(res.route_ids[van]) : van \in DOMAIN res.route_ids }
               \ {"V01"}
           mitigated ==
             SumOver({ i \in DOMAIN village_ids : village_ids[i] \in visited_nodes },
                     prizes)
           all_villages == Range(village_ids) \ {"V01"}
       IN [ route_ids  |-> res.route_ids,
            total_time |-> res.total_time,
            status     |-> res.status,
            total_severity_mitigated |-> Round2(mitigated),
            skipped_ids |-> all_villages \ visited_nodes ]
  ELSE None

(***************************************************************************)
(* allocate_resources.                                                     *)
(***************************************************************************)
SeverityOf(vid) == prizes[CHOOSE i \in DOMAIN village_ids : village_ids[i] = vid]

\* variant: the tier amount is not capped by the remaining capacity
KitsFor_uncapped(sev, remaining) ==
  IF sev >= 800000 THEN 50 ELSE IF sev >= 400000 THEN 20 ELSE 10

KitsFor(sev, remaining) ==
  LET tier == IF sev >= 800000 THEN 50 ELSE IF sev >= 400000 THEN 20 ELSE 10
  IN Min2(tier, remaining)

\* variant: the floor of two nurses is left out
NursesFor_no_floor(kits) == CeilDiv(kits, 10)

NursesFor(kits) == Max2(2, CeilDiv(kits, 10))

SkipStop(vid, remaining) ==
  vid = "V01" \/ vid \notin Range(village_ids) \/ remaining <= 0

RECURSIVE AllocLoop(_, _, _, _)
AllocLoop(route, k, remaining, rows) ==
  IF k > Len(route) THEN [rows |-> rows, remaining |-> remaining]
  ELSE IF SkipStop(route[k], remaining)
       THEN AllocLoop(route, k + 1, remaining, rows)
       ELSE LET sev    == SeverityOf(route[k])
                kits   == KitsFor(sev, remaining)
                nurses == NursesFor(kits)
            IN AllocLoop(route, k + 1, remaining - kits,
                         Append(rows, [ Stop |-> k - 1, Village_ID |-> route[k],
                                        Severity |-> Round2(sev),
                                        Kits |-> kits, Nurses |-> nurses ]))

\* variant: the stops are served from the end of the route list
allocate_resources_reversed(route, capacity) ==
  LET back == [k \in DOMAIN route |-> route[Len(route) + 1 - k]]
      out  == AllocLoop(back, 1, capacity, <<>>)
  IN [rows |-> out.rows, used |-> capacity - out.remaining]

\* the pair returned: the rows and van_capacity - remaining
allocate_resources(route, capacity) ==
  LET out == AllocLoop(route, 1, capacity, <<>>)
  IN [rows |-> out.rows, used |-> capacity - out.remaining]

(***************************************************************************)
(* The dashboard rerun that follows a click on the compute button.         *)
(***************************************************************************)
RECURSIVE FlattenFrom(_, _)
FlattenFrom(routes, van) ==
  IF \A w \in DOMAIN routes : w < van THEN <<>>
  ELSE (IF van \in DOMAIN routes THEN routes[van] ELSE <<>>)
       \o FlattenFrom(routes, van + 1)

\* route_ids of the rerun: the routes of all vans, in van order
FlatRoute(sr) ==
  IF sr.status = "SUCCESS" THEN FlattenFrom(sr.route_ids, 1) ELSE <<>>

\* the dashboard before any click on the compute button
FirstLoad ==
  [ compute_btn  |-> FALSE,
    solver_error |-> FALSE,
    toast        |-> "NONE",
    panel        |-> "AWAITING_SOLVER_EXECUTION" ]

\* visited_count of the rerun: the IDs strictly inside the flattened route
\* list, without the literal "V01"
VisitedCount(route) ==
  LET visited_ids == IF Len(route) > 2
                     THEN Range(SubSeq(route, 2, Len(route) - 1))
                     ELSE {}
  IN Cardinality({ x \in visited_ids : x # "V01" })

\* the messages of one rerun: the solver error of run_solver's except
\* branch, the toast block and the analytics block
Rerun(sr, route, clicked, raised) ==
  LET truthy        == sr # None
      visited_count == VisitedCount(route)
  IN [ compute_btn  |-> clicked,
       solver_error |-> raised,
       toast        |-> IF truthy /\ clicked
                        THEN (IF visited_count > 0 THEN "MISSION_SUCCESS"
                              ELSE "NO_FEASIBLE_ROUTE")
                        ELSE "NONE",
       panel        |-> IF truthy /\ visited_count > 0 THEN "ANALYTICS"
                        ELSE IF truthy /\ visited_count = 0 THEN "NO_FEASIBLE_ROUTE"
                        ELSE "AWAITING_SOLVER_EXECUTION" ]

ComputeClick(max_hours, capacity) ==
  /\ solves = 0
  /\ solve_routing(2, max_hours * 60)
  /\ solver_result' = RunSolverResult(result')
  /\ route_arg' = FlatRoute(solver_result')
  /\ van_capacity' = capacity
  /\ \E out \in { IF route_arg' # <<>>
                   THEN allocate_resources(route_arg', capacity)
                   ELSE [rows |-> <<>>, used |-> 0] } :
       manifest' = out.rows /\ kits_used' = out.used
  /\ screen' = Rerun(solver_result', route_arg', TRUE, result'.status = "RAISED")
  /\ solves' = 1
  /\ UNCHANGED <<dataVars, prev, envVars>>

\* solve_routing called on its own, with the caller's fleet size and budget
SolveRoutingCall(fleet_size, mt) ==
  /\ solves = 0
  /\ solve_routing(fleet_size, mt)
  /\ solves' = 1
  /\ UNCHANGED <<dataVars, solver_result, screen, prev, allocVars, envVars>>

\* nothing fetched, no call running, no prediction file, no session
WeatherIdle ==
  /\ owm = [api_key |-> "", response |-> <<>>]
  /\ weather_records = <<>>
  /\ patched = <<>>

EnvIdle ==
  /\ WeatherIdle
  /\ calls = <<>>
  /\ temp_file = "ABSENT"
  /\ requests = <<>>
  /\ session = <<>>

Init ==
  /\ village_ids \in IdTables
  /\ \E legs \in LegProfiles : time_matrix = ScenarioMatrix(legs)
  /\ distance_matrix = HaversineMatrix(2000)
  /\ cases \in CaseProfiles
  /\ prizes \in SeverityProfiles
  /\ num_vehicles = 2
  /\ max_time = 0
  /\ transit = <<>>
  /\ penalty = <<>>
  /\ solution = <<>>
  /\ search = NoSearch
  /\ result = NotRun
  /\ solver_result = None
  /\ screen = FirstLoad
  /\ prev = NotRun
  /\ solves = 0
  /\ route_arg = <<>>
  /\ van_capacity = 200
  /\ manifest = <<>>
  /\ kits_used = 0
  /\ EnvIdle

Next ==
  \/ \E h \in Hours, c \in Capacities : ComputeClick(h, c)
  \/ \E f \in FleetSizes, mt \in Budgets : SolveRoutingCall(f, mt)

Spec == Init /\ [][Next]_vars

(***************************************************************************)
(* A caller that solves the same data again with a larger time budget.     *)
(***************************************************************************)
\* what the caller keeps of the call that is being replaced
Summary ==
  IF solves = 0 THEN NotRun
  ELSE [ status       |-> result.status,
         num_vehicles |-> num_vehicles,
         max_time     |-> max_time,
         total_time   |-> result.total_time,
         visited      |-> Cardinality(Visited(solution)),
         optimal      |-> search.objective = search.best ]

RaisedSolve(fleet_size, mt) ==
  /\ solves < MaxSolves
  /\ mt > max_time
  /\ solves > 0 => fleet_size = num_vehicles
  /\ solve_routing(fleet_size, mt)
  /\ prev' = Summary
  /\ solves' = solves + 1
  /\ UNCHANGED <<dataVars, solver_result, screen, allocVars, envVars>>

NextRaise == \E f \in FleetSizes, h \in Hours : RaisedSolve(f, h * 60)

\* the Village_IDs play no part in solve_routing's choice of routes; the
\* severities are those of one far hotspot among mild villages, in a district
\* without cases whose hotspot is 100 minutes out, or in a compact district
\* with 1000 cases in every village
InitRaise ==
  /\ Init
  /\ village_ids = [i \in 0..NumVillages |-> IdPool[i + 1]]
  /\ \/ cases[NumVillages] = 0 /\ time_matrix[depot][NumVillages] = 100
     \/ cases[NumVillages] = 1000 /\ time_matrix[depot][NumVillages] = 10
  /\ prizes = [i \in 0..NumVillages |->
                IF i = 0 THEN 0 ELSE IF i = NumVillages THEN 900000 ELSE 100000]

SpecRaise == InitRaise /\ [][NextRaise]_vars

(***************************************************************************)
(* The cost and penalty model on its own, over a wider range of case       *)
(* counts and severities.                                                  *)
(***************************************************************************)
Idle ==
  /\ num_vehicles = 2
  /\ max_time = 0
  /\ transit = <<>>
  /\ penalty = <<>>
  /\ solution = <<>>
  /\ search = NoSearch
  /\ result = NotRun
  /\ solver_result = None
  /\ screen = FirstLoad
  /\ prev = NotRun
  /\ solves = 0
  /\ manifest = <<>>
  /\ kits_used = 0
  /\ EnvIdle

InitCost ==
  /\ village_ids = [i \in 0..NumVillages |-> IdPool[i + 1]]
  /\ \E legs \in LegProfiles : time_matrix = ScenarioMatrix(legs)
  /\ distance_matrix = HaversineMatrix(2000)
  /\ \/ cases \in [0..NumVillages -> CaseValues] /\ prizes = [i \in 0..NumVillages |-> 0]
     \/ cases = [i \in 0..NumVillages |-> 0] /\ prizes \in [0..NumVillages -> SeverityValues]
  /\ Idle
  /\ route_arg = <<>>
  /\ van_capacity = 200

BuildModel(fleet_size, mt) ==
  /\ solves = 0
  /\ RegisterModel(fleet_size, mt)
  /\ solves' = 1
  /\ UNCHANGED <<dataVars, solution, search, result, solver_result, screen, prev,
                 allocVars, envVars>>

NextCost == \E f \in FleetSizes, h \in Hours : BuildModel(f, h * 60)

SpecCost == InitCost /\ [][NextCost]_vars

(***************************************************************************)
(* allocate_resources on its own, over arbitrary route lists.              *)
(***************************************************************************)
RouteLists ==
  UNION { [1..k -> Range(village_ids) \cup {UnknownId}] : k \in 0..MaxRouteLen }

InitAlloc ==
  /\ village_ids \in IdTables
  /\ time_matrix = ScenarioMatrix([i \in 1..NumVillages |-> 10])
  /\ distance_matrix = HaversineMatrix(2000)
  /\ cases = [i \in 0..NumVillages |-> 0]
  /\ prizes \in SeverityProfiles \cup TierProfiles
  /\ Idle
  /\ route_arg \in RouteLists
  /\ van_capacity \in Capacities

AllocateCall ==
  /\ solves = 0
  /\ \E out \in {allocate_resources(route_arg, van_capacity)} :
       manifest' = out.rows /\ kits_used' = out.used
  /\ solves' = 1
  /\ UNCHANGED <<dataVars, solveVars, solver_result, screen, prev, route_arg,
                 van_capacity, envVars>>

NextAlloc == AllocateCall

SpecAlloc == InitAlloc /\ [][NextAlloc]_vars

(***************************************************************************)
(* Requests for one scenario matrix while the villages' coordinates, and   *)
(* with them the haversine distances of the data model, change.            *)
(***************************************************************************)
DistanceProfiles == { HaversineMatrix(2000), HaversineMatrix(20000) }

\* what is kept of the routing model of the call that is being replaced,
\* with the distances that call was made with
ModelSummary ==
  IF solves = 0 THEN NotRun
  ELSE [ status          |-> result.status,
         num_vehicles    |-> num_vehicles,
         max_time        |-> max_time,
         time_matrix     |-> time_matrix,
         distance_matrix |-> prev.distance_matrix,
         cases           |-> cases,
         prizes          |-> prizes,
         transit         |-> transit,
         penalty         |-> penalty ]

\* the village file is edited between two requests: build_data_model
\* computes other distances, run_solver replaces the matrix as before
Relocate(d) ==
  /\ solves < 2
  /\ d # distance_matrix
  /\ distance_matrix' = d
  /\ UNCHANGED <<village_ids, time_matrix, cases, prizes, solveVars, appVars,
                 allocVars, envVars>>

\* one of a pair of run_solver's requests (its fleet size is 2)
ReplacedSolve(mt) ==
  /\ solves < 2
  /\ solve_routing(2, mt)
  /\ prev' = [ status          |-> "RECORDED",
               distance_matrix |-> distance_matrix,
               earlier         |-> ModelSummary ]
  /\ solves' = solves + 1
  /\ UNCHANGED <<dataVars, solver_result, screen, allocVars, envVars>>

NextReplace ==
  \/ \E d \in DistanceProfiles : Relocate(d)
  \/ \E h \in {2, 12} : ReplacedSolve(h * 60)

InitReplace ==
  /\ Init
  /\ village_ids = [i \in 0..NumVillages |-> IdPool[i + 1]]
  /\ time_matrix[depot][NumVillages] = 10
  /\ cases[NumVillages] = 0
  /\ prizes = [i \in 0..NumVillages |->
                IF i = 1 THEN 900000 ELSE IF i = 2 THEN 500000 ELSE 0]

SpecReplace == InitReplace /\ [][NextReplace]_vars

(***************************************************************************)
(* Requests whose scenario matrix has one node fewer or one node more      *)
(* than the village table, the case vector and the severity vector.        *)
(***************************************************************************)
ShapedMatrix(last, minutes) ==
  [i \in 0..last |-> [j \in 0..last |-> IF i = j THEN 0 ELSE minutes]]

InitShape ==
  /\ village_ids \in IdTables
  /\ \E last \in (NumVillages - 1)..(NumVillages + 1), minutes \in {10, 100} :
       time_matrix = ShapedMatrix(last, minutes)
  /\ distance_matrix = HaversineMatrix(2000)
  /\ cases \in CaseProfiles
  /\ prizes \in SeverityProfiles
  /\ Idle
  /\ route_arg = <<>>
  /\ van_capacity = 200

SpecShape == InitShape /\ [][Next]_vars

(***************************************************************************)
(* hour11_live_environment: the weather records and the patched matrix.    *)
(* A multiplier is kept in tenths (2.5 is 25).                             *)
(***************************************************************************)
PENALTY ==
  ("Clear" :> 10) @@ ("Cloudy" :> 11) @@ ("Light Rain" :> 15)
  @@ ("Heavy Rain" :> 25) @@ ("Thunderstorm" :> 30) @@ ("Fog" :> 18)

owm_code_to_label(code) ==
  IF 200 <= code /\ code <= 299 THEN "Thunderstorm"
  ELSE IF 300 <= code /\ code <= 399 THEN "Light Rain"
  ELSE IF 500 <= code /\ code <= 501 THEN "Light Rain"
  ELSE IF 502 <= code /\ code <= 531 THEN "Heavy Rain"
  ELSE IF 600 <= code /\ code <= 699 THEN "Heavy Rain"
  ELSE IF 700 <= code /\ code <= 799 THEN "Fog"
  ELSE IF code = 800 THEN "Clear"
  ELSE IF 801 <= code /\ code <= 804 THEN "Cloudy"
  ELSE "Clear"

\* random.Random(sum of the character codes of the ID).random(), in 1/10000
MockRoll ==
  ("DEPOT" :> 9219) @@ ("V01" :> 1079) @@ ("V02" :> 2759) @@ ("V03" :> 9002)
  @@ ("V04" :> 3423) @@ ("V05" :> 3512) @@ ("V06" :> 7897)

mock_weather(village_id) ==
  LET roll == MockRoll[village_id]
      pick == IF roll < 2000 THEN <<"Heavy Rain", 502>>
              ELSE IF roll < 4000 THEN <<"Light Rain", 500>>
              ELSE IF roll < 5500 THEN <<"Thunderstorm", 211>>
              ELSE IF roll < 6500 THEN <<"Fog", 741>>
              ELSE <<"Clear", 800>>
  IN [ village_id |-> village_id, condition |-> pick[1], raw_code |-> pick[2],
       source |-> "mock" ]

\* what the provider does for one village: a current-weather document with
\* a condition code, a requests.RequestException (no route, timeout, HTTP
\* error status), or a document without the "weather" entry
Responses ==
  { [kind |-> "ok", code |-> 800], [kind |-> "ok", code |-> 502],
    [kind |-> "ok", code |-> 999],
    [kind |-> "RequestException"], [kind |-> "no_weather_entry"] }

RaisedKeyError == [status |-> "RAISED", error |-> "KeyError", records |-> <<>>]

\* the loop of get_live_weather from village k on; only RequestException is
\* caught
RECURSIVE WeatherLoop(_, _, _, _, _)
WeatherLoop(api_key, ids, response, k, results) ==
  IF k \notin DOMAIN ids THEN [status |-> "RETURNED", records |-> results]
  ELSE IF api_key = ""
  THEN WeatherLoop(api_key, ids, response, k + 1,
                   Append(results, mock_weather(ids[k])))
  ELSE IF response[k].kind = "ok"
  THEN WeatherLoop(api_key, ids, response, k + 1,
                   Append(results,
                          [ village_id |-> ids[k],
                            condition  |-> owm_code_to_label(response[k].code),
                            raw_code   |-> response[k].code,
                            source     |-> "live" ]))
  ELSE IF response[k].kind = "RequestException"
  THEN WeatherLoop(api_key, ids, response, k + 1,
                   Append(results, [mock_weather(ids[k]) EXCEPT !.source = "cache"]))
  ELSE RaisedKeyError

get_live_weather(api_key, ids, response) ==
  WeatherLoop(api_key, ids, response, 0, <<>>)

GetLiveWeatherCall ==
  /\ solves = 0
  /\ weather_records' = get_live_weather(owm.api_key, village_ids, owm.response)
  /\ solves' = 1
  /\ UNCHANGED <<dataVars, solveVars, solver_result, screen, prev, allocVars,
                 owm, patched, calls, temp_file, requests, session>>

\* variant: only the weather at the node an arc leaves is looked at
apply_weather_penalties_leaving(base_matrix, records) ==
  LET penalties == [i \in DOMAIN base_matrix |->
                      IF records[i + 1].condition \in DOMAIN PENALTY
                      THEN PENALTY[records[i + 1].condition] ELSE 10]
  IN [i \in DOMAIN base_matrix |-> [j \in DOMAIN base_matrix |->
        TruncDiv(base_matrix[i][j] * penalties[i], 10)]]

apply_weather_penalties(base_matrix, records) ==
  LET penalties == [i \in DOMAIN base_matrix |->
                      IF records[i + 1].condition \in DOMAIN PENALTY
                      THEN PENALTY[records[i + 1].condition] ELSE 10]
  IN [i \in DOMAIN base_matrix |-> [j \in DOMAIN base_matrix |->
        TruncDiv(base_matrix[i][j] * Max2(penalties[i], penalties[j]), 10)]]

RaisedValueError == [status |-> "RAISED", error |-> "ValueError", records |-> <<>>]

\* get_live_travel_matrix: the shape check, the fetch and the patch
GetLiveTravelMatrixCall ==
  /\ solves = 0
  /\ IF Cardinality(DOMAIN village_ids) # Cardinality(DOMAIN time_matrix)
     THEN weather_records' = RaisedValueError /\ patched' = patched
     ELSE /\ weather_records' = get_live_weather(owm.api_key, village_ids, owm.response)
          /\ patched' = IF weather_records'.status = "RETURNED"
                        THEN apply_weather_penalties(time_matrix, weather_records'.records)
                        ELSE patched
  /\ solves' = 1
  /\ UNCHANGED <<dataVars, solveVars, solver_result, screen, prev, allocVars,
                 owm, calls, temp_file, requests, session>>

\* apply_weather_penalties called with the caller's own records
ApplyWeatherPenaltiesCall ==
  /\ solves = 0
  /\ patched' = apply_weather_penalties(time_matrix, weather_records.records)
  /\ solves' = 1
  /\ UNCHANGED <<dataVars, solveVars, solver_result, screen, prev, allocVars,
                 owm, weather_records, calls, temp_file, requests, session>>

\* everything but the weather module at rest, on a compact district
QuietDistrict ==
  /\ distance_matrix = HaversineMatrix(2000)
  /\ cases = [i \in 0..NumVillages |-> 0]
  /\ prizes = [i \in 0..NumVillages |-> 0]
  /\ num_vehicles = 2
  /\ max_time = 0
  /\ transit = <<>>
  /\ penalty = <<>>
  /\ solution = <<>>
  /\ search = NoSearch
  /\ result = NotRun
  /\ solver_result = None
  /\ screen = FirstLoad
  /\ prev = NotRun
  /\ solves = 0
  /\ route_arg = <<>>
  /\ van_capacity = 200
  /\ manifest = <<>>
  /\ kits_used = 0

InitWeather ==
  /\ QuietDistrict
  /\ village_ids \in IdTables
  /\ time_matrix = ShapedMatrix(NumVillages, 15)
  /\ owm \in [api_key : {"", "KEY"}, response : [0..NumVillages -> Responses]]
  /\ weather_records = <<>>
  /\ patched = <<>>
  /\ calls = <<>>
  /\ temp_file = "ABSENT"
  /\ requests = <<>>
  /\ session = <<>>

NextWeather == GetLiveWeatherCall \/ GetLiveTravelMatrixCall

SpecWeather == InitWeather /\ [][NextWeather]_vars

\* the labels a caller's records carry; "Snow" is not a key of PENALTY
Conditions == {"Clear", "Cloudy", "Heavy Rain", "Fog", "Snow"}

\* base matrices with travel times of 7 and 15 minutes
PenaltyBases ==
  { ShapedMatrix(NumVillages, 7),
    ScenarioMatrix([i \in 1..NumVillages |-> IF i = NumVillages THEN 15 ELSE 7]) }

InitPenalty ==
  /\ QuietDistrict
  /\ village_ids = [i \in 0..NumVillages |-> IdPool[i + 1]]
  /\ time_matrix \in PenaltyBases
  /\ owm = [api_key |-> "", response |-> <<>>]
  /\ \E conds \in [1..(NumVillages + 1) -> Conditions] :
       weather_records =
         [ status  |-> "GIVEN",
           records |-> [k \in 1..(NumVillages + 1) |->
                          [ village_id |-> village_ids[k - 1],
                            condition  |-> conds[k],
                            raw_code   |-> 800,
                            source     |-> "live" ]] ]
  /\ patched = <<>>
  /\ calls = <<>>
  /\ temp_file = "ABSENT"
  /\ requests = <<>>
  /\ session = <<>>

NextPenalty == ApplyWeatherPenaltiesCall

SpecPenalty == InitPenalty /\ [][NextPenalty]_vars

(***************************************************************************)
(* Two solve_routing calls that run interleaved on one data dictionary,    *)
(* up to the construction of the index manager.  num_vehicles is the       *)
(* dictionary's entry; calls[t].num_vehicles is the local of call t.       *)
(***************************************************************************)
Threads == {1, 2}

Entered(fleet_size) ==
  [ pc |-> "entered", fleet_size |-> fleet_size, num_vehicles |-> 0, manager |-> 0 ]

\* data["num_vehicles"] = fleet_size
WriteFleet(t) ==
  /\ calls[t].pc = "entered"
  /\ num_vehicles' = calls[t].fleet_size
  /\ calls' = [calls EXCEPT ![t].pc = "written"]
  /\ UNCHANGED <<dataVars, max_time, transit, penalty, solution, search, result,
                 appVars, allocVars, owm, weather_records, patched, temp_file,
                 requests, session>>

\* num_vehicles = data["num_vehicles"]
ReadFleet(t) ==
  /\ calls[t].pc = "written"
  /\ calls' = [calls EXCEPT ![t].pc = "read", ![t].num_vehicles = num_vehicles]
  /\ UNCHANGED <<dataVars, solveVars, appVars, allocVars, owm, weather_records,
                 patched, temp_file, requests, session>>

\* manager = RoutingIndexManager(num_nodes, num_vehicles, depot)
BuildManager(t) ==
  /\ calls[t].pc = "read"
  /\ calls' = [calls EXCEPT ![t].pc = "built",
                            ![t].manager = calls[t].num_vehicles]
  /\ UNCHANGED <<dataVars, solveVars, appVars, allocVars, owm, weather_records,
                 patched, temp_file, requests, session>>

InitThreads ==
  /\ QuietDistrict
  /\ village_ids \in IdTables
  /\ \E legs \in LegProfiles : time_matrix = ScenarioMatrix(legs)
  /\ WeatherIdle
  /\ \E f \in [Threads -> FleetSizes] :
       /\ f[1] # f[2]
       /\ calls = [t \in Threads |-> Entered(f[t])]
  /\ temp_file = "ABSENT"
  /\ requests = <<>>
  /\ session = <<>>

NextThreads == \E t \in Threads : WriteFleet(t) \/ ReadFleet(t) \/ BuildManager(t)

SpecThreads == InitThreads /\ [][NextThreads]_vars

(***************************************************************************)
(* The dashboard's scenarios and files.  A table is named by the file it   *)
(* was read from; the table predict_tomorrow makes of it is named after it.*)
(***************************************************************************)
SCENARIOS ==
  ( "Normal Operations" :>
      [matrix |-> "matrix_normal.csv", outbreak |-> "outbreak.csv"] )
  @@ ( "Monsoon (Flooded Roads)" :>
      [matrix |-> "matrix_monsoon.csv", outbreak |-> "outbreak.csv"] )
  @@ ( "Critical Outbreak" :>
      [matrix |-> "matrix_normal.csv", outbreak |-> "outbreaks_critical.csv"] )

\* predict_tomorrow(ml_pipeline, df), reshaped to the solver's columns
predict_tomorrow ==
  ( "outbreak.csv" :> "tomorrow of outbreak.csv" )
  @@ ( "outbreaks_critical.csv" :> "tomorrow of outbreaks_critical.csv" )

TempFile == "temp_predictive_outbreak.csv"

\* pd.read_csv(path): the temporary file holds what was written last
ReadCsv(path, temp) == IF path = TempFile THEN temp ELSE path

(***************************************************************************)
(* Two compute requests of two sessions served by one process: the script  *)
(* of each session runs in its own thread, in the same working directory.  *)
(***************************************************************************)
Sessions == {1, 2}

\* a rerun with the compute button clicked, after the LOAD DATA block
Clicked(scenario_label, predictive_mode) ==
  [ pc              |-> "clicked",
    scenario_label  |-> scenario_label,
    predictive_mode |-> predictive_mode,
    df              |-> SCENARIOS[scenario_label].outbreak,
    outbreak_target |-> "",
    scenario_df     |-> "" ]

\* the predictive intercept: the prediction is saved under the fixed name
Intercept(r) ==
  LET q == requests[r]
  IN /\ q.pc = "clicked"
     /\ IF q.predictive_mode
        THEN /\ temp_file' = predict_tomorrow[q.df]
             /\ requests' = [requests EXCEPT ![r].pc = "intercepted",
                                             ![r].outbreak_target = TempFile]
        ELSE /\ temp_file' = temp_file
             /\ requests' = [requests EXCEPT
                               ![r].pc = "intercepted",
                               ![r].outbreak_target = SCENARIOS[q.scenario_label].outbreak]
     /\ UNCHANGED <<dataVars, solveVars, appVars, allocVars, owm, weather_records,
                    patched, calls, session>>

\* run_solver: scenario_df = load_scenario(outbreak_path)
RunSolverRead(r) ==
  LET q == requests[r]
  IN /\ q.pc = "intercepted"
     /\ requests' = [requests EXCEPT
                       ![r].pc = "solved",
                       ![r].scenario_df = ReadCsv(q.outbreak_target, temp_file)]
     /\ UNCHANGED <<dataVars, solveVars, appVars, allocVars, owm, weather_records,
                    patched, calls, temp_file, session>>

\* if predictive_mode: df = load_scenario("temp_predictive_outbreak.csv")
Redisplay(r) ==
  LET q == requests[r]
  IN /\ q.pc = "solved"
     /\ requests' = [requests EXCEPT
                       ![r].pc = "shown",
                       ![r].df = IF q.predictive_mode
                                 THEN ReadCsv(TempFile, temp_file) ELSE q.df]
     /\ UNCHANGED <<dataVars, solveVars, appVars, allocVars, owm, weather_records,
                    patched, calls, temp_file, session>>

InitRequests ==
  /\ QuietDistrict
  /\ village_ids = [i \in 0..NumVillages |-> IdPool[i + 1]]
  /\ time_matrix = ShapedMatrix(NumVillages, 10)
  /\ WeatherIdle
  /\ calls = <<>>
  /\ temp_file \in {"ABSENT", "tomorrow of outbreak.csv"}
  /\ requests \in [Sessions -> { Clicked(l, m) : l \in DOMAIN SCENARIOS,
                                                  m \in BOOLEAN }]
  /\ session = <<>>

NextRequests == \E r \in Sessions : Intercept(r) \/ RunSolverRead(r) \/ Redisplay(r)

SpecRequests == InitRequests /\ [][NextRequests]_vars

(***************************************************************************)
(* One browser session: every change of a widget and every click reruns    *)
(* the script from the top.  session holds st.session_state, the widget    *)
(* values of the last rerun and the table df that rerun displays.  A       *)
(* stored result carries the inputs run_solver was called with and the     *)
(* widget values of the rerun that stored it.  None is written "None" for  *)
(* text and 0 for a number (no slider position is 0).                      *)
(***************************************************************************)
Labels == DOMAIN SCENARIOS

MaxMins == {120, 480}

Kits == {50, 200}

\* variant: the kit capacity is left out of the comparison
ParamsChanged_no_capacity(ss, scenario_label, max_mins, capacity) ==
  \/ ss.last_scenario # scenario_label
  \/ ss.last_max_mins # max_mins

\* the condition of the session state block
ParamsChanged(ss, scenario_label, max_mins, capacity) ==
  \/ ss.last_scenario # scenario_label
  \/ ss.last_max_mins # max_mins
  \/ ss.last_capacity # capacity

\* what run_solver returns in the compute block: the formatted SUCCESS
\* result, or None (no solution, or an exception caught)
SolverResults(scenario_label, max_mins, capacity, outbreak_target, temp) ==
  { None,
    [ status         |-> "SUCCESS",
      matrix_path    |-> SCENARIOS[scenario_label].matrix,
      scenario_df    |-> ReadCsv(outbreak_target, temp),
      scenario_label |-> scenario_label,
      max_time_mins  |-> max_mins,
      van_capacity   |-> capacity ] }

\* one run of the script, from the LOAD DATA block to the end of the
\* compute block
AppRerun(scenario_label, max_mins, capacity, predictive_mode, compute_btn) ==
  LET df      == SCENARIOS[scenario_label].outbreak
      changed == ParamsChanged(session, scenario_label, max_mins, capacity)
      kept    == IF changed THEN None ELSE session.solver_result
      pred_df == predict_tomorrow[df]
      widgets == [session EXCEPT !.scenario_label  = scenario_label,
                                 !.max_mins        = max_mins,
                                 !.van_capacity    = capacity,
                                 !.predictive_mode = predictive_mode,
                                 !.compute_btn     = compute_btn,
                                 !.last_scenario   = scenario_label,
                                 !.last_max_mins   = max_mins,
                                 !.last_capacity   = capacity]
  IN /\ IF compute_btn
        THEN /\ temp_file' = IF predictive_mode THEN pred_df ELSE temp_file
             /\ \E outbreak_target \in {IF predictive_mode THEN TempFile ELSE df} :
                  \E sr \in SolverResults(scenario_label, max_mins, capacity,
                                          outbreak_target, temp_file') :
                    session' = [widgets EXCEPT
                                  !.solver_result = sr,
                                  !.pred_df = IF predictive_mode THEN pred_df ELSE "None",
                                  !.df = IF predictive_mode
                                         THEN ReadCsv(TempFile, temp_file') ELSE df]
        ELSE /\ temp_file' = temp_file
             /\ session' = [widgets EXCEPT
                              !.solver_result = kept,
                              !.df = IF session.pred_df # "None"
                                     THEN ReadCsv(TempFile, temp_file) ELSE df]
     /\ UNCHANGED <<dataVars, solveVars, appVars, allocVars, owm, weather_records,
                    patched, calls, requests>>

\* the session after the first run of the script, widgets at their defaults
FirstRun ==
  [ scenario_label  |-> "Normal Operations",
    max_mins        |-> 480,
    van_capacity    |-> 200,
    predictive_mode |-> FALSE,
    compute_btn     |-> FALSE,
    last_scenario   |-> "Normal Operations",
    last_max_mins   |-> 480,
    last_capacity   |-> 200,
    solver_result   |-> None,
    pred_df         |-> "None",
    df              |-> "outbreak.csv" ]

InitSession ==
  /\ QuietDistrict
  /\ village_ids = [i \in 0..NumVillages |-> IdPool[i + 1]]
  /\ time_matrix = ShapedMatrix(NumVillages, 10)
  /\ WeatherIdle
  /\ calls = <<>>
  /\ temp_file = "ABSENT"
  /\ requests = <<>>
  /\ session = FirstRun

NextSession ==
  \E l \in Labels, m \in MaxMins, c \in Kits, p \in BOOLEAN, b \in BOOLEAN :
    AppRerun(l, m, c, p, b)

SpecSession == InitSession /\ [][NextSession]_vars

(***************************************************************************)
(* Properties.  The quantities below are written from the statements, not  *)
(* from the definitions above.                                             *)
(***************************************************************************)
NodeOf(vid) == CHOOSE i \in DOMAIN village_ids : village_ids[i] = vid

\* min(120, trunc(30 + 1.5 c)) for a case count c >= 0, 0 at the depot
StatedServiceTime(i) ==
  IF i = depot THEN 0
  ELSE IF cases[i] >= 60 THEN 120
  ELSE 30 + cases[i] + cases[i] \div 2

StatedArc(i, j) == time_matrix[i][j] + StatedServiceTime(i)

RECURSIVE StatedPathTime(_)
StatedPathTime(path) ==
  IF Len(path) < 2 THEN 0
  ELSE StatedArc(path[1], path[2]) + StatedPathTime(Tail(path))

\* time of the round trip depot, seq, depot over nodes
StatedTripTime(seq) == StatedPathTime(<<depot>> \o seq \o <<depot>>)

\* time of a route given as Village_IDs
StatedRouteTime(route) == StatedPathTime([k \in DOMAIN route |-> NodeOf(route[k])])

Conventional == village_ids[depot] = "V01"

AppSuccess == solver_result.status = "SUCCESS"

Optimal == search.objective = search.best

NonDepotIds == { village_ids[i] : i \in DOMAIN village_ids \ {depot} }

\* the non-depot Village_IDs on the routes of a route mapping
IdsOnRoutes(routes) ==
  UNION { Range(routes[van]) : van \in DOMAIN routes } \ {village_ids[depot]}

Occurrences(routes, vid) ==
  Cardinality({ p \in (DOMAIN routes) \X (1..(NumVillages + 2)) :
                  p[2] \in DOMAIN routes[p[1]] /\ routes[p[1]][p[2]] = vid })

\* C1: in every SUCCESS result of solve_routing, the time of every vehicle
\* route (sum over its arcs of travel time plus service time of the node
\* left) is at most max_time.
RouteTimeWithinBudget ==
  result.status = "SUCCESS" =>
    \A van \in DOMAIN result.route_ids :
      StatedRouteTime(result.route_ids[van]) <= max_time

RouteTimeWitness ==
  /\ result.status = "SUCCESS"
  /\ Cardinality(DOMAIN result.route_ids) = 2
  /\ \E van \in DOMAIN result.route_ids :
       /\ Len(result.route_ids[van]) >= 4
       /\ StatedRouteTime(result.route_ids[van]) > 240
       /\ StatedRouteTime(result.route_ids[van]) <= max_time

\* C2: in every SUCCESS result returned by run_solver, every non-depot
\* village is either on exactly one vehicle route, exactly once, or in
\* skipped_ids: never both, never neither; taken for results on which the
\* search reached the least objective value.
PartitionInvariant ==
  (AppSuccess /\ Optimal) =>
    \A vid \in NonDepotIds :
      \/ Occurrences(solver_result.route_ids, vid) = 1
           /\ vid \notin solver_result.skipped_ids
      \/ Occurrences(solver_result.route_ids, vid) = 0
           /\ vid \in solver_result.skipped_ids

\* C3 as stated: of two solves of the same data with budgets T1 < T2, the
\* one with T2 visits at least as many villages; taken for results on which
\* the search reached the least objective value.
MonotoneCoverage ==
  (/\ prev.status = "SUCCESS" /\ prev.optimal
   /\ result.status = "SUCCESS" /\ Optimal)
  => Cardinality(Visited(solution)) >= prev.visited

\* C3 amended: raising the budget keeps every earlier plan admissible: the
\* total time of the result under T1 is within T2, and under T2 some
\* admissible assignment visits at least as many villages as that result.
RaisedBudgetKeepsPlans ==
  (prev.status = "SUCCESS" /\ result.status = "SUCCESS")
  => /\ prev.total_time <= max_time
     /\ \E a \in FeasibleSet(num_vehicles, transit, max_time) :
          Cardinality(Visited(a)) >= prev.visited

RaisedBudgetWitness ==
  /\ prev.status = "SUCCESS" /\ prev.optimal
  /\ result.status = "SUCCESS" /\ Optimal
  /\ prev.max_time < max_time
  /\ prev.visited = 2
  /\ Cardinality(Visited(solution)) = 1

\* C4: the kits of all manifest rows add up to at most van_capacity, and
\* the capacity-consumed value returned equals that sum.
SumKits(rows) == SumOver(DOMAIN rows, [k \in DOMAIN rows |-> rows[k].Kits])

KitsWithinCapacity ==
  /\ SumKits(manifest) <= van_capacity
  /\ kits_used = SumKits(manifest)

KitsWitness ==
  /\ solves = 1
  /\ Len(manifest) >= 2
  /\ kits_used = van_capacity
  /\ manifest[Len(manifest)].Kits = 10
  /\ SeverityOf(manifest[Len(manifest)].Village_ID) >= 400000
  /\ Len(route_arg) > Len(manifest)

\* C5: no manifest row carries the ID of the depot of the data model,
\* village_ids[depot]; taken for routes on which the search reached the
\* least objective value.
NoDepotRow ==
  Optimal => \A k \in DOMAIN manifest : manifest[k].Village_ID # village_ids[depot]

\* C7 as stated: depot V01 and three villages of severity 9, 5, 0; whenever
\* one route through all three fits the budget, the result visits all
\* three, skips none and mitigates 14; taken for results on which the search
\* reached the least objective value.
Scenario950 ==
  /\ Conventional
  /\ Cardinality(NonDepot) = 3
  /\ prizes[1] = 900000 /\ prizes[2] = 500000 /\ prizes[3] = 0

FullTrips == { s \in InjSeqs(NonDepot) : Len(s) = Cardinality(NonDepot) }

FullCoverageWhenTimeAllows ==
  (/\ AppSuccess /\ Optimal /\ Scenario950
   /\ \E s \in FullTrips : StatedTripTime(s) <= max_time)
  => /\ IdsOnRoutes(solver_result.route_ids) = NonDepotIds
     /\ solver_result.skipped_ids = {}
     /\ solver_result.total_severity_mitigated = 1400000

\* C7 amended: in that scenario, a result whose routes hold all three
\* villages skips none and mitigates 14; and a result of least objective
\* value holds all three whenever a route through all three fits the budget
\* and costs less than 500, the skip penalty of the zero-severity village.
FullCoverageWhenCheaper ==
  (AppSuccess /\ Scenario950)
  => /\ IdsOnRoutes(solver_result.route_ids) = NonDepotIds
          => /\ solver_result.skipped_ids = {}
             /\ solver_result.total_severity_mitigated = 1400000
     /\ (/\ Optimal
         /\ \E s \in FullTrips :
              StatedTripTime(s) <= max_time /\ StatedTripTime(s) < 500)
          => IdsOnRoutes(solver_result.route_ids) = NonDepotIds

FullCoverageWitness ==
  /\ AppSuccess /\ Optimal /\ Scenario950
  /\ \E s \in FullTrips : StatedTripTime(s) <= max_time /\ StatedTripTime(s) < 500
  /\ IdsOnRoutes(solver_result.route_ids) = NonDepotIds
  /\ solver_result.total_severity_mitigated = 1400000

\* C8 as stated: depot V01 and three villages; when the budget lets a van
\* make a round trip to one village but not to two, the result visits
\* exactly one village in total, the one of least total cost, and the other
\* two are skipped; taken for results on which the search reached the least
\* objective value.
TightBudget ==
  /\ \E i \in NonDepot : StatedTripTime(<<i>>) <= max_time
  /\ \A i, j \in NonDepot : i # j => StatedTripTime(<<i, j>>) > max_time

SingleVisitCost(i) ==
  StatedTripTime(<<i>>) + SumOver(NonDepot \ {i}, penalty)

ArcCostAsStated ==
  transit # <<>> =>
    \A i, j \in Nodes :
      /\ transit[i][j] = StatedArc(i, j)
      /\ i = depot => transit[i][j] = time_matrix[i][j]
      /\ i # depot => /\ transit[i][j] - time_matrix[i][j] >= 30
                      /\ transit[i][j] - time_matrix[i][j] <= 120
      /\ (i # depot /\ cases[i] = 1000)
           => transit[i][j] - time_matrix[i][j] = 120

ArcCostWitness ==
  /\ transit # <<>>
  /\ \E i, j, k \in NonDepot :
       /\ cases[i] = 1000 /\ transit[i][depot] = time_matrix[i][depot] + 120
       /\ cases[j] = 1 /\ transit[j][depot] = time_matrix[j][depot] + 31
       /\ cases[k] = 59 /\ transit[k][depot] = time_matrix[k][depot] + 118

\* C10 as stated: the penalty of a non-depot node is round(severity * 10000),
\* or 500 when that is zero; the depot has none.
RoundedTenth(u) ==
  LET q == u \div 10
      r == u % 10
  IN IF r > 5 \/ (r = 5 /\ q % 2 = 1) THEN q + 1 ELSE q

PenaltyRounded ==
  penalty # <<>> =>
    /\ DOMAIN penalty = NonDepot
    /\ \A i \in NonDepot :
         penalty[i] = IF RoundedTenth(prizes[i]) = 0 THEN 500
                      ELSE RoundedTenth(prizes[i])

\* C10 amended: the penalty of a non-depot node is severity * 10000 cut down
\* to an integer (not rounded), or 500 when that is zero; with all
\* severities zero every penalty is 500; the depot has none.
PenaltyTruncated ==
  penalty # <<>> =>
    /\ DOMAIN penalty = NonDepot
    /\ \A i \in NonDepot :
         /\ prizes[i] < 10 => penalty[i] = 500
         /\ prizes[i] >= 10 => /\ 10 * penalty[i] <= prizes[i]
                               /\ prizes[i] < 10 * penalty[i] + 10
    /\ (\A i \in NonDepot : prizes[i] = 0) => \A i \in NonDepot : penalty[i] = 500

PenaltyWitness ==
  /\ penalty # <<>>
  /\ \E i, j, k \in NonDepot :
       /\ prizes[i] = 9 /\ penalty[i] = 500
       /\ prizes[j] = 15 /\ penalty[j] = 1
       /\ prizes[k] = 1000000 /\ penalty[k] = 100000

\* C11: in every SUCCESS result the route mapping has an entry for a vehicle
\* exactly when that vehicle visits at least one non-depot node, and every
\* entry starts with the depot ID, ends with the depot ID and has only
\* non-depot IDs, those of the nodes the vehicle visits, in between.
RouteMappingShape ==
  result.status = "SUCCESS" =>
    /\ DOMAIN result.route_ids \subseteq { v + 1 : v \in DOMAIN solution }
    /\ \A v \in DOMAIN solution :
         (v + 1 \in DOMAIN result.route_ids) <=> (Len(solution[v]) >= 1)
    /\ \A van \in DOMAIN result.route_ids :
         LET r == result.route_ids[van]
         IN /\ Len(r) = Len(solution[van - 1]) + 2
            /\ r[1] = village_ids[depot]
            /\ r[Len(r)] = village_ids[depot]
            /\ \A k \in 2..(Len(r) - 1) :
                 /\ r[k] # village_ids[depot]
                 /\ r[k] = village_ids[solution[van - 1][k - 1]]

RouteMappingWitness ==
  /\ result.status = "SUCCESS"
  /\ num_vehicles = 2
  /\ DOMAIN result.route_ids = {2}
  /\ Len(result.route_ids[2]) >= 4

\* C12: in every SUCCESS result total_time is the largest (not the sum) of
\* the route completion times of the vehicles, and so is at most max_time.
TotalTimeIsMax ==
  result.status = "SUCCESS" =>
    /\ \E v \in DOMAIN solution : result.total_time = StatedTripTime(solution[v])
    /\ \A v \in DOMAIN solution : StatedTripTime(solution[v]) <= result.total_time
    /\ result.total_time <= max_time

TotalTimeWitness ==
  /\ result.status = "SUCCESS"
  /\ num_vehicles = 2
  /\ StatedTripTime(solution[0]) > 0
  /\ StatedTripTime(solution[1]) > StatedTripTime(solution[0])
  /\ result.total_time = StatedTripTime(solution[1])
  /\ StatedTripTime(solution[0]) + StatedTripTime(solution[1]) > max_time

\* C13: when the optimizer finds no assignment, solve_routing returns a
\* result (it does not raise) whose status is NO_SOLUTION, whose route
\* mapping is empty and whose total time is 0.
NoSolutionShape ==
  (solves > 0 /\ search = NoSearch) =>
    /\ result.status = "NO_SOLUTION"
    /\ DOMAIN result.route_ids = {}
    /\ result.total_time = 0

NoSolutionWitness ==
  /\ solves = 1
  /\ search = NoSearch
  /\ transit # <<>>
  /\ result.status = "NO_SOLUTION"

\* C14: whenever a solve request of the dashboard ends with status
\* NO_SOLUTION, the rerun tells the operator that no feasible route was
\* found (with the advice to raise the budget or lighten the scenario), and
\* does not show the screen of a session in which no solve was run.
NoSolutionReported ==
  (screen.compute_btn /\ result.status = "NO_SOLUTION") =>
    /\ screen.toast = "NO_FEASIBLE_ROUTE" \/ screen.panel = "NO_FEASIBLE_ROUTE"
    /\ screen.panel # "AWAITING_SOLVER_EXECUTION"

\* C15: whenever the dimension of the time matrix differs from the number
\* of villages (or from the length of the case or severity vector), the
\* solve request fails with an error raised before the search begins: it
\* never comes back with a result of the search; taken for requests whose
\* search, if entered, finds an assignment of least objective value.
ShapeMismatch ==
  \/ Cardinality(DOMAIN time_matrix) # Cardinality(DOMAIN village_ids)
  \/ Cardinality(DOMAIN time_matrix) # Cardinality(DOMAIN cases)
  \/ Cardinality(DOMAIN time_matrix) # Cardinality(DOMAIN prizes)

FailsFastOnMismatch ==
  (solves > 0 /\ ShapeMismatch /\ result.status # "NO_SOLUTION" /\ Optimal) =>
    /\ result.status = "RAISED"
    /\ search = NoSearch
    /\ solution = <<>>

\* C16: with a scenario matrix in place of the computed one, the solve
\* depends on travel times only through data['time_matrix']: every arc cost
\* is the matrix entry plus the service time whatever the haversine
\* distances are, and two requests with the same matrix, cases, severities,
\* fleet size and budget but other distances have the same arc costs, the
\* same budget constraint and the same penalties.
SameRequest ==
  /\ prev.status = "RECORDED"
  /\ prev.earlier.status # "NOT_RUN"
  /\ prev.earlier.num_vehicles = num_vehicles
  /\ prev.earlier.max_time = max_time
  /\ prev.earlier.time_matrix = time_matrix
  /\ prev.earlier.cases = cases
  /\ prev.earlier.prizes = prizes

ScenarioMatrixAuthoritative ==
  /\ transit # <<>> =>
       \A i, j \in Nodes : transit[i][j] = time_matrix[i][j] + StatedServiceTime(i)
  /\ SameRequest =>
       /\ transit = prev.earlier.transit
       /\ penalty = prev.earlier.penalty

ScenarioMatrixWitness ==
  /\ SameRequest
  /\ prev.earlier.distance_matrix # prev.distance_matrix
  /\ transit = prev.earlier.transit
  /\ \E i, j \in Nodes :
       /\ time_matrix[i][j] # HaversineMinutes(prev.distance_matrix[i][j])
       /\ time_matrix[i][j] # HaversineMinutes(prev.earlier.distance_matrix[i][j])

\* C17: solve_routing is a pure function of its inputs: after any call the
\* input data dictionary (time matrix, cases, prizes, village_ids,
\* num_vehicles; the depot index is fixed) is as it was before the call.
InputDataUnchanged ==
  [][UNCHANGED <<time_matrix, cases, prizes, village_ids, num_vehicles>>]_vars

\* C18: every stop that allocate_resources serves is served while capacity
\* remains, with kits = min(tier, remaining), where tier is 50 for a
\* severity of 8 or more, 20 for a severity from 4 up to 8 and 10 below, and
\* with nurses = max(2, ceil(kits / 10)), a number from 2 to 5.
StatedTier(sev) ==
  IF sev >= 800000 THEN 50
  ELSE IF sev >= 400000 /\ sev < 800000 THEN 20
  ELSE 10

KitsBefore(rows, k) ==
  SumOver(1..(k - 1), [j \in 1..(k - 1) |-> rows[j].Kits])

TieredAllocation ==
  \A k \in DOMAIN manifest :
    LET remaining == van_capacity - KitsBefore(manifest, k)
        tier      == StatedTier(prizes[NodeOf(manifest[k].Village_ID)])
        kits      == manifest[k].Kits
        nurses    == manifest[k].Nurses
    IN /\ remaining > 0
       /\ kits = IF tier <= remaining THEN tier ELSE remaining
       /\ \E n \in 0..5 :
            /\ 10 * n >= kits /\ 10 * (n - 1) < kits
            /\ nurses = IF n >= 2 THEN n ELSE 2
       /\ nurses >= 2 /\ nurses <= 5

TieredAllocationWitness ==
  /\ solves = 1
  /\ van_capacity = 60
  /\ \E j, k \in DOMAIN manifest :
       /\ j < k
       /\ prizes[NodeOf(manifest[j].Village_ID)] = 800000
       /\ manifest[j].Kits = 50 /\ manifest[j].Nurses = 5
       /\ prizes[NodeOf(manifest[k].Village_ID)] = 400000
       /\ manifest[k].Kits = 10 /\ manifest[k].Nurses = 2

\* C19: allocation is first come, first served in route order: the rows
\* follow the order of the route, the rows of the stops before any position
\* are those of the allocation of that part of the route alone (they depend
\* on the capacity and on the stops before only), and if a stop receives
\* kits, every eligible stop before it (an ID of the severity table that is
\* not the allocator's depot ID) has received its full tier amount.
Eligible(vid) == vid \in Range(village_ids) /\ vid # "V01"

RowsBefore(m) ==
  SubSeq(manifest, 1, Cardinality({ i \in DOMAIN manifest : manifest[i].Stop < m }))

FirstComeFirstServed ==
  /\ \A i, j \in DOMAIN manifest : i < j => manifest[i].Stop < manifest[j].Stop
  /\ \A m \in 0..Len(route_arg) :
       solves > 0 =>
         allocate_resources(SubSeq(route_arg, 1, m), van_capacity).rows = RowsBefore(m)
  /\ \A i \in DOMAIN manifest :
       \A j \in 1..manifest[i].Stop :
         Eligible(route_arg[j]) =>
           \E h \in DOMAIN manifest :
             /\ manifest[h].Stop = j - 1
             /\ manifest[h].Village_ID = route_arg[j]
             /\ manifest[h].Kits = StatedTier(prizes[NodeOf(route_arg[j])])

FirstComeWitness ==
  /\ solves = 1
  /\ \E j, k \in DOMAIN manifest :
       /\ j < k
       /\ prizes[NodeOf(manifest[j].Village_ID)] < prizes[NodeOf(manifest[k].Village_ID)]
       /\ manifest[j].Kits = StatedTier(prizes[NodeOf(manifest[j].Village_ID)])
       /\ manifest[k].Kits < StatedTier(prizes[NodeOf(manifest[k].Village_ID)])
  /\ \E s \in DOMAIN route_arg :
       /\ Eligible(route_arg[s])
       /\ \A i \in DOMAIN manifest : manifest[i].Stop < s - 1

\* C20: running out of capacity is not an error: the allocator adds no row
\* for any stop after that and keeps the rows before, so the manifest is a
\* (possibly shorter) prefix, in order, of the non-depot stops of the route,
\* every row with at least 1 kit, and shorter only when the capacity is
\* used up; taken for routes on which the search reached the least
\* objective value.
RECURSIVE NonDepotStops(_)
NonDepotStops(route) ==
  IF route = <<>> THEN <<>>
  ELSE IF Head(route) = village_ids[depot] THEN NonDepotStops(Tail(route))
  ELSE <<Head(route)>> \o NonDepotStops(Tail(route))

ManifestIsPrefix ==
  Optimal =>
    LET stops == NonDepotStops(route_arg)
    IN /\ Len(manifest) <= Len(stops)
       /\ \A k \in DOMAIN manifest :
            /\ manifest[k].Village_ID = stops[k]
            /\ manifest[k].Kits >= 1
       /\ Len(manifest) < Len(stops) => kits_used = van_capacity

\* C21: get_live_weather returns exactly one record per village, in input
\* order, whatever the provider does for each village: when the call fails
\* or the response is unusable the record is the mock of that village with
\* source 'cache', and no failure reaches the caller.
OneRecordPerVillage ==
  (solves > 0 /\ weather_records # <<>>) =>
    /\ weather_records.status = "RETURNED"
    /\ Len(weather_records.records) = Cardinality(DOMAIN village_ids)
    /\ \A k \in DOMAIN weather_records.records :
         LET w == weather_records.records[k]
         IN /\ w.village_id = village_ids[k - 1]
            /\ (owm.api_key # "" /\ owm.response[k - 1].kind # "ok")
                 => w = [ village_id |-> village_ids[k - 1],
                          condition  |-> mock_weather(village_ids[k - 1]).condition,
                          raw_code   |-> mock_weather(village_ids[k - 1]).raw_code,
                          source     |-> "cache" ]

RECURSIVE TravelAlong(_)
TravelAlong(path) ==
  IF Len(path) < 2 THEN 0
  ELSE time_matrix[path[1]][path[2]] + TravelAlong(Tail(path))

\* driving time of the round trip plus one service per village on it
StatedCompletion(seq) ==
  TravelAlong(<<depot>> \o seq \o <<depot>>)
  + SumOver(Range(seq), [i \in Range(seq) |-> StatedServiceTime(i)])

\* C22: with zero slack the completion time of every vehicle is exactly the
\* driving time of its round trip plus the service time of each village on
\* it counted once (the last one included, nothing for the depot); the
\* reported total_time is the largest of these and each is within max_time.
ZeroSlack ==
  result.status = "SUCCESS" =>
    /\ \A v \in DOMAIN solution : StatedCompletion(solution[v]) <= max_time
    /\ \A v \in DOMAIN solution : StatedCompletion(solution[v]) <= result.total_time
    /\ \E v \in DOMAIN solution : StatedCompletion(solution[v]) = result.total_time
    /\ \A v \in DOMAIN solution :
         solution[v] = <<>> => StatedCompletion(solution[v]) = 0

ZeroSlackWitness ==
  /\ result.status = "SUCCESS"
  /\ \E v \in DOMAIN solution :
       /\ Len(solution[v]) >= 2
       /\ cases[solution[v][Len(solution[v])]] > 0
       /\ result.total_time = StatedCompletion(solution[v])
       /\ result.total_time
            = TravelAlong(<<depot>> \o solution[v] \o <<depot>>)
              + StatedServiceTime(solution[v][1]) + StatedServiceTime(solution[v][2])
       /\ result.total_time > TravelAlong(<<depot>> \o solution[v] \o <<depot>>) + 60

\* summed severity of the non-depot villages whose ID is in a set of IDs
SeverityOfIds(ids) ==
  SumOver({ i \in DOMAIN village_ids \ {depot} : village_ids[i] \in ids }, prizes)

\* C23: in every SUCCESS result of run_solver, total_severity_mitigated is
\* the summed Severity_Score of exactly the non-depot villages on some
\* vehicle route, so that mitigated severity plus the summed severity of
\* skipped_ids is the total severity of all non-depot villages.
MitigatedIsVisitedSeverity ==
  AppSuccess =>
    /\ solver_result.total_severity_mitigated
         = SeverityOfIds(IdsOnRoutes(solver_result.route_ids))
    /\ solver_result.total_severity_mitigated
         + SeverityOfIds(solver_result.skipped_ids)
         = SeverityOfIds(NonDepotIds)

\* C24: when two solve_routing calls with different fleet sizes run
\* interleaved on the same data dictionary, each call builds its routing
\* model with its own fleet_size.
OwnFleetSize ==
  \A t \in DOMAIN calls :
    calls[t].pc = "built" => calls[t].manager = calls[t].fleet_size

\* C25: under any interleaving of concurrent compute requests in predictive
\* mode, the outbreak data the solver of a request reads, and the table the
\* request redisplays, is the prediction generated by that same request.
OwnPrediction ==
  \A r \in DOMAIN requests :
    LET q    == requests[r]
        mine == predict_tomorrow[SCENARIOS[q.scenario_label].outbreak]
    IN q.predictive_mode =>
         /\ (q.pc \in {"solved", "shown"} => q.scenario_df = mine)
         /\ (q.pc = "shown" => q.df = mine)

\* the multiplier of a condition label, in tenths; 1.0 for any other label
StatedMultiplier(condition) ==
  CASE condition = "Clear"        -> 10
    [] condition = "Cloudy"       -> 11
    [] condition = "Light Rain"   -> 15
    [] condition = "Heavy Rain"   -> 25
    [] condition = "Thunderstorm" -> 30
    [] condition = "Fog"          -> 18
    [] OTHER                      -> 10

\* the larger multiplier of the two ends of an arc, in tenths
ArcMultiplier(i, j) ==
  LET mi == StatedMultiplier(weather_records.records[i + 1].condition)
      mj == StatedMultiplier(weather_records.records[j + 1].condition)
  IN IF mi >= mj THEN mi ELSE mj

\* C26: apply_weather_penalties returns a matrix whose entry [i][j] is
\* trunc(base[i][j] * max(multiplier of i, multiplier of j)), multiplier 1.0
\* for an unknown condition; the base matrix is left as it was, no entry is
\* below the base entry, and a zero diagonal and the symmetry of the base
\* are kept.
WeatherPenaltyApplied ==
  patched # <<>> =>
    /\ time_matrix \in PenaltyBases
    /\ DOMAIN patched = DOMAIN time_matrix
    /\ \A i, j \in DOMAIN time_matrix :
         /\ 10 * patched[i][j] <= time_matrix[i][j] * ArcMultiplier(i, j)
         /\ time_matrix[i][j] * ArcMultiplier(i, j) < 10 * (patched[i][j] + 1)
         /\ patched[i][j] >= time_matrix[i][j]
         /\ (i = j /\ time_matrix[i][i] = 0) => patched[i][j] = 0
    /\ (\A i, j \in DOMAIN time_matrix : time_matrix[i][j] = time_matrix[j][i])
         => \A i, j \in DOMAIN time_matrix : patched[i][j] = patched[j][i]

WeatherPenaltyWitness ==
  /\ patched # <<>>
  /\ weather_records.records[1].condition = "Snow"
  /\ weather_records.records[2].condition = "Cloudy"
  /\ weather_records.records[3].condition = "Heavy Rain"
  /\ patched[0][1] = 7 /\ patched[1][0] = 7
  /\ patched[1][2] = 17 /\ patched[2][1] = 17
  /\ time_matrix[1][2] = 7

\* C27: the skip penalty is monotone in severity: of two non-depot villages
\* the one with the higher severity never has the lower penalty, and every
\* village with severity above 0 has a penalty of at least 500, the floor
\* of a village with severity 0.
PenaltyMonotone ==
  penalty # <<>> =>
    \A i, j \in DOMAIN penalty :
      /\ prizes[i] > prizes[j] => penalty[i] >= penalty[j]
      /\ prizes[i] > 0 => penalty[i] >= 500

\* the assignment in which every vehicle goes from the depot to the depot
AllSkipped == [v \in 0..(num_vehicles - 1) |-> <<>>]

\* C28: skipping is always allowed: for a zero-diagonal non-negative time
\* matrix and a budget of at least 0 the assignment that skips every village
\* satisfies all constraints of the registered model, so that NO_SOLUTION is
\* never the only possible outcome: the SUCCESS result with an empty route
\* mapping and total time 0 is one.
SkippingAlwaysAllowed ==
  (result.status \in {"SUCCESS", "NO_SOLUTION"} /\ transit # <<>>) =>
    /\ \A v \in DOMAIN AllSkipped : transit[depot][depot] <= max_time
    /\ AllSkipped \in FeasibleSet(num_vehicles, transit, max_time)
    /\ ExtractResult(AllSkipped, transit)
         = [route_ids |-> <<>>, total_time |-> 0, status |-> "SUCCESS"]

SkippingWitness ==
  /\ max_time = 0
  /\ transit # <<>>
  /\ solution = AllSkipped
  /\ result = [route_ids |-> <<>>, total_time |-> 0, status |-> "SUCCESS"]
  /\ \E i \in NonDepot : prizes[i] > 0

\* C29: after any sequence of reruns, whenever session_state.solver_result
\* is not None it was computed under the scenario, time budget and van
\* capacity that are selected now.
StoredResultIsCurrent ==
  (session # <<>> /\ session.solver_result # None) =>
    /\ session.solver_result.scenario_label = session.scenario_label
    /\ session.solver_result.matrix_path = SCENARIOS[session.scenario_label].matrix
    /\ session.solver_result.max_time_mins = session.max_mins
    /\ session.solver_result.van_capacity = session.van_capacity

StoredResultWitness ==
  /\ session # <<>>
  /\ session.solver_result # None
  /\ ~session.compute_btn
  /\ session.scenario_label = "Critical Outbreak"
  /\ session.max_mins = 120
  /\ session.van_capacity = 50
  /\ StoredResultIsCurrent

\* C30: after any sequence of reruns, the table df used for display and
\* kit allocation is derived from the outbreak data of the scenario selected
\* now, directly or through predictions generated from it.
TableFromSelectedScenario ==
  session # <<>> =>
    \/ session.df = SCENARIOS[session.scenario_label].outbreak
    \/ session.df = predict_tomorrow[SCENARIOS[session.scenario_label].outbreak]

====
